---- MODULE Spec2Model ----
(***************************************************************************)
(* advertools/extract.py: the generic extraction engine `extract` and the  *)
(* specialized extractors built on it.                                     *)
(*                                                                         *)
(* A text is a sequence of characters (strings; an emoji is written as its *)
(* code point, "U+1F600"); a matched value is the sub-sequence of          *)
(* characters the pattern matched.  Every call is a pure function of its   *)
(* arguments, so the state is the last call made: its name, its arguments  *)
(* and what it returned or raised.                                         *)
(***************************************************************************)
EXTENDS Integers, Sequences, FiniteSets, TLC

VARIABLES fn, args, out

vars == <<fn, args, out>>

-----------------------------------------------------------------------------
(* Characters, str.lower() and the character classes of Python's re.       *)

\* str.lower() on one character: the upper-case letters of the alphabet.
LowerOf == [c \in {"A", "R", "W", "F", "S", "O", "T", "P"} |->
              CASE c = "A" -> "a" [] c = "R" -> "r" [] c = "W" -> "w"
                [] c = "F" -> "f" [] c = "S" -> "s" [] c = "O" -> "o"
                [] c = "T" -> "t" [] c = "P" -> "p"]

LowerChar(c) == IF c \in DOMAIN LowerOf THEN LowerOf[c] ELSE c

\* text.lower()
Lower(text) == [i \in 1..Len(text) |-> LowerChar(text[i])]

LowerLetters == {"a", "b", "c", "f", "g", "h", "i", "m", "n", "o", "p", "r", "s",
                 "t", "w"}
UpperLetters == DOMAIN LowerOf
Digits == {"1", "4"}
\* \w
WordChars == LowerLetters \cup UpperLetters \cup Digits \cup {"_"}
\* \s
SpaceChars == {" "}
CurrencyChars == {"$", "€"}
EmojiChars == {"U+1F600", "U+1F63A", "U+1F49B"}
Punctuation == {"#", "@", "!", "¡", "?", "¿", ".", "/", ":", ","}
\* every character a text of the model is made of
AllChars == WordChars \cup SpaceChars \cup CurrencyChars \cup EmojiChars
              \cup Punctuation
\* \S
NonSpace == AllChars \ SpaceChars
\* . (any character but a newline; no text of the model holds a newline)
AnyChar == AllChars

\* the set a pattern character stands for, under re.IGNORECASE or not
CaseSet(c, ignorecase) ==
    IF ignorecase
      THEN {d \in AllChars : LowerChar(d) = LowerChar(c)}
      ELSE {c}

-----------------------------------------------------------------------------
(* Python's re as a backtracking matcher over pattern trees.               *)
(*   [k |-> "set", s |-> S]               one character of S               *)
(*   [k |-> "eps"]                        the empty pattern                *)
(*   [k |-> "cat", a |-> p, b |-> q]      pq                               *)
(*   [k |-> "alt", a |-> p, b |-> q]      p|q                              *)
(*   [k |-> "rep", a |-> p, lo, hi]       p{lo,hi}, greedy; hi = -1: no    *)
(*                                        upper limit                      *)
(*   [k |-> "wb"]                         \b                               *)
(*   [k |-> "grp", n |-> i, a |-> p]      capturing group i                *)
(*   [k |-> "ref", n |-> i]               backreference \i                 *)
(* Match gives the ends (and captures) of the matches of a node that start *)
(* at position i, in the order backtracking tries them: the first is the   *)
(* match re reports.                                                       *)

Set(S) == [k |-> "set", s |-> S]
Eps == [k |-> "eps"]
Cat(p, q) == [k |-> "cat", a |-> p, b |-> q]
Alt(p, q) == [k |-> "alt", a |-> p, b |-> q]
Rep(p, lo, hi) == [k |-> "rep", a |-> p, lo |-> lo, hi |-> hi]
Star(p) == Rep(p, 0, -1)
Plus(p) == Rep(p, 1, -1)
WordBoundary == [k |-> "wb"]
Group(i, p) == [k |-> "grp", n |-> i, a |-> p]
Backref(i) == [k |-> "ref", n |-> i]

RECURSIVE CatAll(_)
\* the concatenation of a sequence of patterns
CatAll(ps) == IF ps = <<>> THEN Eps ELSE Cat(Head(ps), CatAll(Tail(ps)))

RECURSIVE AltAll(_)
\* '|'.join(ps): the empty join is the empty pattern
AltAll(ps) ==
    IF ps = <<>> THEN Eps
    ELSE IF Len(ps) = 1 THEN Head(ps)
    ELSE Alt(Head(ps), AltAll(Tail(ps)))

\* the literal string s, each character under the flag
Literal(s, ignorecase) ==
    CatAll([i \in 1..Len(s) |-> Set(CaseSet(s[i], ignorecase))])

NoCaps == [i \in 1..3 |-> <<>>]

IsWordAt(text, i) == i >= 1 /\ i <= Len(text) /\ text[i] \in WordChars

\* \b: between a word character and a non-word character or an end
AtWordBoundary(text, i) == IsWordAt(text, i - 1) # IsWordAt(text, i)

StartsWithAt(text, i, s) ==
    /\ i + Len(s) - 1 <= Len(text)
    /\ \A j \in 1..Len(s) : text[i + j - 1] = s[j]

\* how many characters of S stand in a row from position i on, at most
\* hi of them when hi is a limit
RunLength(text, i, S, hi) ==
    LET stop == IF \E j \in i..Len(text) : text[j] \notin S
                  THEN CHOOSE j \in i..Len(text) :
                         text[j] \notin S /\ \A h \in i..(j - 1) : text[h] \in S
                  ELSE Len(text) + 1
    IN  IF hi >= 0 /\ stop - i > hi THEN hi ELSE stop - i

RECURSIVE ConcatAll(_)
\* the sequences of a sequence, one after the other
ConcatAll(lists) ==
    IF Len(lists) = 0 THEN <<>>
    ELSE IF Len(lists) = 1 THEN lists[1]
    ELSE LET half == Len(lists) \div 2
         IN  ConcatAll(SubSeq(lists, 1, half))
               \o ConcatAll(SubSeq(lists, half + 1, Len(lists)))

\* greedy repetition of a character class: the longest run first, then
\* each shorter one down to lo characters
Runs(i, c, n, lo) ==
    IF n < lo THEN <<>>
    ELSE [j \in 1..(n - lo + 1) |-> [e |-> i + n - j + 1, c |-> c]]

\* the matches rs of the inside of group n, which began at i, with what
\* the group captured
Capture(rs, text, i, n) ==
    [j \in 1..Len(rs) |->
       [e |-> rs[j].e,
        c |-> [rs[j].c EXCEPT ![n] = SubSeq(text, i, rs[j].e - 1)]]]

RECURSIVE Match(_, _, _, _)

\* the matches of node that start where one of the matches rs ends, in the
\* order of rs
Then(rs, node, text) ==
    ConcatAll([j \in 1..Len(rs) |-> Match(node, text, rs[j].e, rs[j].c)])

Match(node, text, i, c) ==
    CASE node.k = "set" ->
           IF i <= Len(text) /\ text[i] \in node.s
             THEN <<[e |-> i + 1, c |-> c]>> ELSE <<>>
      [] node.k = "eps" -> <<[e |-> i, c |-> c]>>
      [] node.k = "cat" -> Then(Match(node.a, text, i, c), node.b, text)
      [] node.k = "alt" -> Match(node.a, text, i, c) \o Match(node.b, text, i, c)
      [] node.k = "rep" /\ node.a.k = "set" ->
           Runs(i, c, RunLength(text, i, node.a.s, node.hi),
                IF node.lo > 0 THEN node.lo ELSE 0)
      [] node.k = "rep" /\ node.a.k # "set" ->
           \* one more round, if it is allowed and gets ahead, before
           \* stopping here, if that is allowed
           (IF node.hi = 0 THEN <<>>
            ELSE Then(SelectSeq(Match(node.a, text, i, c), LAMBDA r : r.e > i),
                      Rep(node.a,
                          IF node.lo > 0 THEN node.lo - 1 ELSE 0,
                          IF node.hi > 0 THEN node.hi - 1 ELSE node.hi),
                      text))
             \o (IF node.lo <= 0 THEN <<[e |-> i, c |-> c]>> ELSE <<>>)
      [] node.k = "wb" ->
           IF AtWordBoundary(text, i) THEN <<[e |-> i, c |-> c]>> ELSE <<>>
      [] node.k = "grp" -> Capture(Match(node.a, text, i, c), text, i, node.n)
      [] node.k = "ref" ->
           IF StartsWithAt(text, i, c[node.n])
             THEN <<[e |-> i + Len(c[node.n]), c |-> c]>> ELSE <<>>

\* what findall reports for one match: the match, the group, or the tuple
\* of the groups
MatchValue(groups, text, i, r) ==
    IF groups = 0 THEN SubSeq(text, i, r.e - 1)
    ELSE IF groups = 1 THEN r.c[1]
    ELSE [j \in 1..groups |-> r.c[j]]

RECURSIVE Scan(_, _, _, _, _)

\* the scanner at position i, rs being the matches allowed there: without
\* one it moves on by a character, with one it reports the first and goes
\* on where that ends
ScanOn(re, groups, text, i, rs) ==
    IF rs = <<>>
      THEN Scan(re, groups, text, i + 1, FALSE)
      ELSE <<MatchValue(groups, text, i, Head(rs))>>
             \o Scan(re, groups, text, Head(rs).e, Head(rs).e = i)

\* the scanner of findall: leftmost matches, left to right, not overlapping;
\* after an empty match the next one must not be empty at the same place
Scan(re, groups, text, i, mustAdvance) ==
    IF i > Len(text) + 1 THEN <<>>
    ELSE ScanOn(re, groups, text, i,
                SelectSeq(Match(re, text, i, NoCaps),
                          LAMBDA r : ~mustAdvance \/ r.e > i))

\* regex.findall(text), regex a compiled pattern [re, groups]
FindAll(regex, text) == Scan(regex.re, regex.groups, text, 1, FALSE)

Compile(re, groups) == [re |-> re, groups |-> groups]

-----------------------------------------------------------------------------
(* Python values: a str or a list as the text_list argument, None or a     *)
(* list as the extracted argument, exceptions, true division.              *)

Str(t) == [type |-> "str", v |-> t]
List(l) == [type |-> "list", v |-> l]
None == [type |-> "None", v |-> <<>>]

\* isinstance(x, str)
IsStr(x) == x.type = "str"

\* the items `for text in x` visits: the characters of a str, each a str of
\* one character, or the elements of a list
Iter(x) == IF IsStr(x) THEN [i \in 1..Len(x.v) |-> <<x.v[i]>>] ELSE x.v

\* len(x)
PyLen(x) == Len(x.v)

\* the truth value of x: None and the empty list are false
Truthy(x) == x.type # "None" /\ Len(x.v) > 0

Raise(e) == [exception |-> e]
IsRaised(r) == DOMAIN r = {"exception"}

RECURSIVE Gcd(_, _)
Gcd(a, b) == IF b = 0 THEN a ELSE Gcd(b, a % b)

\* n // d in place of n / d
FloorDiv(n, d) ==
    IF d = 0 THEN Raise("ZeroDivisionError")
    ELSE [num |-> n \div d, den |-> 1]

\* a division that gives zero where there is nothing to divide by
DivOrZero(n, d) ==
    IF d = 0 THEN [num |-> 0, den |-> 1]
    ELSE [num |-> n \div Gcd(n, d), den |-> d \div Gcd(n, d)]

\* n / d of two lengths: the ratio, in lowest terms
TrueDiv(n, d) ==
    IF d = 0 THEN Raise("ZeroDivisionError")
    ELSE [num |-> n \div Gcd(n, d), den |-> d \div Gcd(n, d)]

\* a flattening that stops after the first sublist
FlattenFirstOnly(lists) == IF Len(lists) = 0 THEN <<>> ELSE Head(lists)

\* [item for sublist in lists for item in sublist]
Flatten(lists) == ConcatAll(lists)

\* [len(sublist) for sublist in lists]
Lens(lists) == [i \in 1..Len(lists) |-> Len(lists[i])]

-----------------------------------------------------------------------------
(* collections.Counter and sorted                                          *)

\* the positions of xs at which a value is seen for the first time
FirstSeen(xs) ==
    SelectSeq([i \in 1..Len(xs) |-> i],
              LAMBDA i : \A j \in 1..(i - 1) : xs[j] # xs[i])

\* Counter(xs).items(): a Counter is a dict, so its items keep the order
\* in which each value was first seen, each with the number of the
\* positions that hold it
CounterItems(xs) ==
    LET first == FirstSeen(xs)
    IN  [n \in 1..Len(first) |->
           <<xs[first[n]],
             Cardinality({j \in 1..Len(xs) : xs[j] = xs[first[n]]})>>]

\* an ordering that lets the later of two equal keys overtake the earlier
BeforeUnstable(x, y, k, reverse) == IF reverse THEN x[k] >= y[k] ELSE x[k] <= y[k]

\* an ordering that is descending whatever the reverse flag says
BeforeDescending(x, y, k, reverse) == x[k] > y[k]

\* does item x go before item y: sorted is stable, and stable under
\* reverse=True as well, so x goes before y only when its key is strictly
\* on the better side
Before(x, y, k, reverse) == IF reverse THEN x[k] > y[k] ELSE x[k] < y[k]

RECURSIVE Insert(_, _, _, _)
\* x, which came after every item of the sorted list s, put in its place
Insert(s, x, k, reverse) ==
    IF Len(s) = 0 THEN <<x>>
    ELSE IF Before(x, Head(s), k, reverse) THEN <<x>> \o s
    ELSE <<Head(s)>> \o Insert(Tail(s), x, k, reverse)

RECURSIVE SortFrom(_, _, _, _)
SortFrom(done, items, k, reverse) ==
    IF Len(items) = 0 THEN done
    ELSE SortFrom(Insert(done, Head(items), k, reverse), Tail(items), k, reverse)

\* sorted(items, key=lambda x: x[k - 1], reverse=reverse)
Sorted(items, k, reverse) == SortFrom(<<>>, items, k, reverse)

\* len(set(xs))
NumDistinct(xs) == Cardinality({xs[i] : i \in 1..Len(xs)})

-----------------------------------------------------------------------------
(* extract: the generic engine                                             *)

\* a plural in "es"
PluralEs(key_name) == key_name \o "es"

\* the plural of a key name
Plural(key_name) == key_name \o "s"

\* text_list after `if isinstance(text_list, str): text_list = [text_list]`
AsList(text_list) ==
    IF IsStr(text_list) THEN List(<<text_list.v>>) ELSE text_list

\* [regex.findall(text.lower()) for text in texts]
FindAllLower(regex, texts) ==
    [i \in 1..Len(texts) |-> FindAll(regex, Lower(texts[i]))]

\* the summary of the matches extracted from the records of text_list, or
\* the exception of the division
Summary(text_list, key_name, extracted) ==
    LET flat == Flatten(extracted)
        per_post == TrueDiv(Len(flat), PyLen(text_list))
    IN  IF IsRaised(per_post) THEN per_post
        ELSE (Plural(key_name) :> extracted)
          @@ (Plural(key_name) \o "_flat" :> flat)
          @@ (key_name \o "_counts" :> Lens(extracted))
          @@ (key_name \o "_freq" :>
                Sorted(CounterItems(Lens(extracted)), 1, FALSE))
          @@ ("top_" \o Plural(key_name) :>
                Sorted(CounterItems(flat), 2, TRUE))
          @@ ("overview" :>
                (   ("num_posts" :> PyLen(text_list))
                 @@ ("num_" \o Plural(key_name) :> Len(flat))
                 @@ (Plural(key_name) \o "_per_post" :> per_post)
                 @@ ("unique_" \o Plural(key_name) :> NumDistinct(flat))))

\* the pattern applied to the records whether matches are supplied or not
extract_always_matching(text_list, regex, key_name, extracted) ==
    Summary(AsList(text_list), key_name,
            FindAllLower(regex, AsList(text_list).v))

\* the matches are found in the lower-cased records unless a non-empty list
\* of matches is passed
extract(text_list, regex, key_name, extracted) ==
    Summary(AsList(text_list), key_name,
            IF ~Truthy(extracted)
              THEN FindAllLower(regex, AsList(text_list).v)
              ELSE extracted.v)

-----------------------------------------------------------------------------
(* The patterns of advertools.regex and the table of advertools.emoji,     *)
(* which the extractors import.                                            *)

\* a hashtag or a mention: the sign and the word characters after it
HASHTAG == Compile(Cat(Set({"#"}), Plus(Set(WordChars))), 0)
MENTION == Compile(Cat(Set({"@"}), Plus(Set(WordChars))), 0)

\* one character of the currency symbol class
CURRENCY_RAW == Set(CurrencyChars)
CURRENCY == Compile(CURRENCY_RAW, 0)

ExclamationMarks == {"!", "¡"}
QuestionMarks == {"?", "¿"}
SentenceEnds == {".", "!", "?"}

EXCLAMATION_MARK == Compile(Set(ExclamationMarks), 0)
QUESTION_MARK == Compile(Set(QuestionMarks), 0)

\* the clause before a mark, up to and including the mark
EXCLAMATION ==
    Compile(CatAll(<<Rep(Set({"¡"}), 0, 1),
                     Plus(Set(AllChars \ (SentenceEnds \cup {"¡", "¿"}))),
                     Set({"!"})>>), 0)
QUESTION ==
    Compile(CatAll(<<Rep(Set({"¿"}), 0, 1),
                     Plus(Set(AllChars \ (SentenceEnds \cup {"¡", "¿"}))),
                     Set({"?"})>>), 0)

\* a URL-shaped token: no spaces, a dot inside; nothing is validated
URL == Compile(CatAll(<<Plus(Set(NonSpace)), Set({"."}), Plus(Set(NonSpace))>>), 0)

\* one emoji grapheme
EMOJI == Compile(Set(EmojiChars), 0)

EMOJI_ENTRIES ==
    [em \in EmojiChars |->
       CASE em = "U+1F600" ->
              [name |-> "grinning face", group |-> "Smileys & Emotion",
               sub_group |-> "face-smiling"]
         [] em = "U+1F63A" ->
              [name |-> "grinning cat", group |-> "Smileys & Emotion",
               sub_group |-> "cat-face"]
         [] em = "U+1F49B" ->
              [name |-> "yellow heart", group |-> "Smileys & Emotion",
               sub_group |-> "emotion"]]

-----------------------------------------------------------------------------
(* The specialized extractors.                                             *)

\* unicodedata.name(c).lower() for the symbols and marks of the alphabet
NameLower(c) ==
    CASE c = "$" -> "dollar sign"
      [] c = "€" -> "euro sign"
      [] c = "!" -> "exclamation mark"
      [] c = "¡" -> "inverted exclamation mark"
      [] c = "?" -> "question mark"
      [] c = "¿" -> "inverted question mark"

\* [[name(c).lower() for c in x] if x else [] for x in matches]
Names(matches) ==
    [i \in 1..Len(matches) |->
       [j \in 1..Len(matches[i]) |-> NameLower(matches[i][j][1])]]

\* [regex.findall(text) for text in text_list], on the texts as they are
FindAllEach(regex, text_list) ==
    LET texts == Iter(text_list)
    IN  [i \in 1..Len(texts) |-> FindAll(regex, texts[i])]

extract_hashtags(text_list) == extract(text_list, HASHTAG, "hashtag", None)

extract_mentions(text_list) == extract(text_list, MENTION, "mention", None)

\* the summary with two lists added: the names of the marks of each record
\* and, under text_key, what another pattern finds in each record
WithNamesAndText(summary, key_name, text_key, texts) ==
    IF IsRaised(summary) THEN summary
    ELSE (key_name \o "_names" :> Names(summary[Plural(key_name)]))
      @@ (text_key :> texts)
      @@ summary

\* .{0,left_chars} + CURRENCY_RAW + .{0,right_chars}
SurroundingText(left_chars, right_chars) ==
    Compile(CatAll(<<Rep(Set(AnyChar), 0, left_chars),
                     CURRENCY_RAW,
                     Rep(Set(AnyChar), 0, right_chars)>>), 0)

\* the windows taken from the lower-cased records
extract_currency_lowered(text_list, left_chars, right_chars) ==
    WithNamesAndText(extract(text_list, CURRENCY, "currency_symbol", None),
                     "currency_symbol", "surrounding_text",
                     FindAllLower(SurroundingText(left_chars, right_chars),
                                  Iter(text_list)))

extract_currency(text_list, left_chars, right_chars) ==
    WithNamesAndText(extract(text_list, CURRENCY, "currency_symbol", None),
                     "currency_symbol", "surrounding_text",
                     FindAllEach(SurroundingText(left_chars, right_chars),
                                 text_list))

\* the summary extract_emoji writes out, emoji being the matches of each
\* record
EmojiSummary(text_list, emoji) ==
    LET emoji_flat == Flatten(emoji)
        emoji_flat_text == [i \in 1..Len(emoji_flat) |->
                              EMOJI_ENTRIES[emoji_flat[i][1]].name]
        emoji_groups == [i \in 1..Len(emoji_flat) |->
                           EMOJI_ENTRIES[emoji_flat[i][1]].group]
        emoji_sub_groups == [i \in 1..Len(emoji_flat) |->
                               EMOJI_ENTRIES[emoji_flat[i][1]].sub_group]
        per_post == TrueDiv(Len(emoji_flat), PyLen(text_list))
    IN  IF IsRaised(per_post) THEN per_post
        ELSE ("emoji" :> emoji)
          @@ ("emoji_text" :>
                [i \in 1..Len(emoji) |->
                   [j \in 1..Len(emoji[i]) |-> EMOJI_ENTRIES[emoji[i][j][1]].name]])
          @@ ("emoji_flat" :> emoji_flat)
          @@ ("emoji_flat_text" :> emoji_flat_text)
          @@ ("emoji_counts" :> Lens(emoji))
          @@ ("emoji_freq" :> Sorted(CounterItems(Lens(emoji)), 1, FALSE))
          @@ ("top_emoji" :> Sorted(CounterItems(emoji_flat), 2, TRUE))
          @@ ("top_emoji_text" :> Sorted(CounterItems(emoji_flat_text), 2, TRUE))
          @@ ("top_emoji_groups" :> Sorted(CounterItems(emoji_groups), 2, TRUE))
          @@ ("top_emoji_sub_groups" :>
                Sorted(CounterItems(emoji_sub_groups), 2, TRUE))
          @@ ("overview" :>
                (   ("num_posts" :> PyLen(text_list))
                 @@ ("num_emoji" :> Len(emoji_flat))
                 @@ ("emoji_per_post" :> per_post)
                 @@ ("unique_emoji" :> NumDistinct(emoji_flat))))

extract_emoji(text_list) ==
    EmojiSummary(text_list, FindAllLower(EMOJI, Iter(text_list)))

extract_exclamations(text_list) ==
    WithNamesAndText(extract(text_list, EXCLAMATION_MARK, "exclamation_mark", None),
                     "exclamation_mark", "exclamation_text",
                     FindAllEach(EXCLAMATION, text_list))

extract_questions(text_list) ==
    WithNamesAndText(extract(text_list, QUESTION_MARK, "question_mark", None),
                     "question_mark", "question_text",
                     FindAllEach(QUESTION, text_list))

\* ''.join(x) for a tuple x of three groups
Join3(x) == x[1] \o x[2] \o x[3]

\* one backreference too few: a run one character shorter qualifies
RepeatRefShort(n) == IF n <= 1 THEN Eps ELSE Rep(Backref(2), n - 1, n - 1)

\* (min_reps - 1) * r'\2': a non-positive factor gives the empty string
RepeatRef(n) == IF n <= 0 THEN Eps ELSE Rep(Backref(2), n, n)

\* (\S*)(\S)(\2...\2\S*), with min_reps - 1 backreferences
IntensePattern(min_reps) ==
    Compile(CatAll(<<Group(1, Star(Set(NonSpace))),
                     Group(2, Set(NonSpace)),
                     Group(3, Cat(RepeatRef(min_reps - 1),
                                  Star(Set(NonSpace))))>>), 3)

\* [[''.join(x) for x in matches] for matches in found]
JoinEach(found) ==
    [i \in 1..Len(found) |-> [j \in 1..Len(found[i]) |-> Join3(found[i][j])]]

extract_intense_words(text_list, min_reps) ==
    extract(text_list, IntensePattern(min_reps), "intense_word",
            List(JoinEach(FindAllEach(IntensePattern(min_reps), text_list))))

\* url.lower().startswith(prefix)
LowerStartsWith(url, prefix) == StartsWithAt(Lower(url), 1, prefix)

HttpPrefix == <<"h", "t", "t", "p", ":", "/", "/">>

\* a rewriting that looks for www and ftp in lower case only
NormalizeUrlCaseSensitive(url) ==
    IF StartsWithAt(url, 1, <<"w", "w", "w">>)
         \/ StartsWithAt(url, 1, <<"f", "t", "p">>)
      THEN HttpPrefix \o url
      ELSE url

\* the rewriting of one matched token
NormalizeUrl(url) ==
    IF LowerStartsWith(url, <<"w", "w", "w">>)
         \/ LowerStartsWith(url, <<"f", "t", "p">>)
      THEN HttpPrefix \o url
      ELSE url

\* the index of the first character of u, from position i on, that is in S;
\* Len(u) + 1 when there is none
FindFrom(u, i, S) ==
    IF \E j \in i..Len(u) : u[j] \in S
      THEN CHOOSE j \in i..Len(u) : u[j] \in S /\ \A h \in i..(j - 1) : u[h] \notin S
      ELSE Len(u) + 1

SchemeChars == LowerLetters \cup UpperLetters \cup Digits \cup {"+", "-", "."}

\* urlparse(u).netloc: after the scheme, if there is one, what stands
\* between '//' and the next '/', '?' or '#'
Netloc(u) ==
    LET colon == FindFrom(u, 1, {":"})
        hasScheme == /\ colon > 1 /\ colon <= Len(u)
                     /\ u[1] \in LowerLetters \cup UpperLetters
                     /\ \A j \in 1..(colon - 1) : u[j] \in SchemeChars
        rest == IF hasScheme THEN SubSeq(u, colon + 1, Len(u)) ELSE u
    IN  IF StartsWithAt(rest, 1, <<"/", "/">>)
          THEN SubSeq(rest, 3, FindFrom(rest, 3, {"/", "?", "#"}) - 1)
          ELSE <<>>

\* the index of the last character of d that is c; 0 when there is none
LastIndex(d, c) ==
    IF \E j \in 1..Len(d) : d[j] = c
      THEN CHOOSE j \in 1..Len(d) : d[j] = c /\ \A h \in (j + 1)..Len(d) : d[h] # c
      ELSE 0

\* d.split('.', 1)[-1]: what follows the first '.'
TldAfterFirstDot(d) == SubSeq(d, FindFrom(d, 1, {"."}) + 1, Len(d))

\* d.split('.')[-1]
Tld(d) == SubSeq(d, LastIndex(d, ".") + 1, Len(d))

\* the matched tokens of each record after the rewriting
NormalizeEach(found) ==
    [i \in 1..Len(found) |->
       [j \in 1..Len(found[i]) |-> NormalizeUrl(found[i][j])]]

\* [[urlparse(u).netloc for u in e] for e in extracted]
Domains(extracted) ==
    [i \in 1..Len(extracted) |->
       [j \in 1..Len(extracted[i]) |-> Netloc(extracted[i][j])]]

\* [[d.split('.')[-1] for d in dom] for dom in domains]
Tlds(domains) ==
    [i \in 1..Len(domains) |->
       [j \in 1..Len(domains[i]) |-> Tld(domains[i][j])]]

\* the summary with the rankings of the domains and of their TLDs added
WithDomains(summary, domains) ==
    IF IsRaised(summary) THEN summary
    ELSE ("top_domains" :> Sorted(CounterItems(Flatten(domains)), 2, TRUE))
      @@ ("top_tlds" :> Sorted(CounterItems(Flatten(Tlds(domains))), 2, TRUE))
      @@ summary

\* extracted being the rewritten tokens of each record
UrlSummary(text_list, extracted) ==
    WithDomains(extract(text_list, URL, "url", List(extracted)),
                Domains(extracted))

extract_urls(text_list) ==
    UrlSummary(text_list, NormalizeEach(FindAllEach(URL, text_list)))

\* a pattern for entire words that is not anchored at the end of the word
WordPatternOpenEnd(x, entire_words_only) ==
    IF entire_words_only
      THEN CatAll(<<WordBoundary, Literal(x, TRUE)>>)
      ELSE CatAll(<<Star(Set(NonSpace)), Literal(x, TRUE), Star(Set(NonSpace))>>)

\* the pattern of one target word, entire words only or inside longer ones
WordPattern(x, entire_words_only) ==
    IF entire_words_only
      THEN CatAll(<<WordBoundary, Literal(x, TRUE), WordBoundary>>)
      ELSE CatAll(<<Star(Set(NonSpace)), Literal(x, TRUE), Star(Set(NonSpace))>>)

extract_words(text_list_arg, words_to_extract_arg, entire_words_only) ==
    LET words == IF IsStr(words_to_extract_arg) THEN <<words_to_extract_arg.v>>
                 ELSE words_to_extract_arg.v
        texts == Iter(text_list_arg)
        text_list == [i \in 1..Len(texts) |-> Lower(texts[i])]
        words_to_extract == [i \in 1..Len(words) |-> Lower(words[i])]
        regex == [i \in 1..Len(words_to_extract) |->
                    WordPattern(words_to_extract[i], entire_words_only)]
        word_regex == Compile(AltAll(regex), 0)
    IN  extract(List(text_list), word_regex, "word", None)

-----------------------------------------------------------------------------
(* The arguments the calls are made with: every corpus of at most          *)
(* MaxRecords records that holds at most a given number of atoms           *)
(* (characters or space-separated tokens) in all.                          *)

MaxRecords == 2
MaxChars == 4

SeqsUpTo(S, n) == UNION {[1..m -> S] : m \in 0..n}

\* the ways to cut ts into r consecutive records, empty ones included
Cuts(ts, r) ==
    {c \in [0..r -> 0..Len(ts)] :
        /\ c[0] = 0
        /\ c[r] = Len(ts)
        /\ \A j \in 1..r : c[j - 1] <= c[j]}

Splits(ts, R) ==
    UNION {{[j \in 1..r |-> SubSeq(ts, c[j - 1] + 1, c[j])] : c \in Cuts(ts, r)}
             : r \in 0..R}

Corpora(S, N, R) == UNION {Splits(ts, R) : ts \in SeqsUpTo(S, N)}

\* a list of records, or one single text in place of the list
TextListArgs(S, N, R) ==
    {List(l) : l \in Corpora(S, N, R)} \cup {Str(t) : t \in SeqsUpTo(S, N)}

\* the number of records a text_list argument stands for
NumRecords(text_list) == IF IsStr(text_list) THEN 1 ELSE PyLen(text_list)

-----------------------------------------------------------------------------
(* Calls of extract with patterns of the caller's own.                     *)

EngineChars == {"a", "A", "b"}

\* [ab], a+, a* and (a)(b?): a character class, a repetition, a pattern that
\* matches the empty string and one whose matches are tuples of groups
EnginePatterns ==
    { Compile(Set({"a", "b"}), 0),
      Compile(Plus(Set({"a"})), 0),
      Compile(Star(Set({"a"})), 0),
      Compile(Cat(Group(1, Set({"a"})), Group(2, Rep(Set({"b"}), 0, 1))), 2) }

EngineKeys == {"hashtag", "currency_symbol"}

\* precomputed match lists, one for each record
EngineMatchLists == {<<>>, <<<<"a">>>>, <<<<"b">>, <<"a">>>>, <<<<"b">>, <<"b">>>>}

EngineTexts == {<<"a">>, <<"b", "a", "a">>}

\* the function of the module that a call names, applied to its arguments
Apply(f, a) ==
    CASE f = "extract" -> extract(a.text_list, a.regex, a.key_name, a.extracted)
      [] f = "extract_currency" ->
           extract_currency(a.text_list, a.left_chars, a.right_chars)
      [] f = "extract_emoji" -> extract_emoji(a.text_list)
      [] f = "extract_exclamations" -> extract_exclamations(a.text_list)
      [] f = "extract_hashtags" -> extract_hashtags(a.text_list)
      [] f = "extract_intense_words" ->
           extract_intense_words(a.text_list, a.min_reps)
      [] f = "extract_mentions" -> extract_mentions(a.text_list)
      [] f = "extract_questions" -> extract_questions(a.text_list)
      [] f = "extract_words" ->
           extract_words(a.text_list, a.words_to_extract, a.entire_words_only)
      [] f = "extract_urls" -> extract_urls(a.text_list)

Idle == fn = "none"

\* one call, from the arguments to the summary returned or the exception
\* raised; calls start when no call is in progress (Idle)
Call(f, a) ==
    /\ fn' = f
    /\ args' = a
    /\ out' = Apply(f, a)

CallExtract(N) ==
    /\ Idle
    /\ \E text_list \in TextListArgs(EngineChars, N, MaxRecords),
         regex \in EnginePatterns, key_name \in EngineKeys :
        Call("extract", [text_list |-> text_list, regex |-> regex,
                         key_name |-> key_name, extracted |-> None])

CallExtractPrecomputed ==
    /\ Idle
    /\ \E text_list \in {List(l) : l \in SeqsUpTo(EngineTexts, MaxRecords)}
                         \cup {Str(t) : t \in EngineTexts},
         regex \in EnginePatterns, key_name \in EngineKeys :
        \E extracted \in [1..NumRecords(text_list) -> EngineMatchLists] :
          Call("extract", [text_list |-> text_list, regex |-> regex,
                           key_name |-> key_name, extracted |-> List(extracted)])

HashtagChars == {"#", "a", "A", " "}
MentionChars == {"@", "a", "A", " "}
CurrencyTextChars == {"$", "€", "a", "A"}
EmojiTextChars == {"U+1F600", "U+1F49B", "U+1F63A", "a"}
ExclamationChars == {"!", "¡", "a", "."}
QuestionChars == {"?", "¿", "a", "."}
IntenseChars == {"s", "o", "O", " "}
WordTextChars == {"a", "b", "A", " ", ","}

CallHashtags(N) ==
    /\ Idle
    /\ \E text_list \in TextListArgs(HashtagChars, N, MaxRecords) :
        Call("extract_hashtags", [text_list |-> text_list])

CallMentions(N) ==
    /\ Idle
    /\ \E text_list \in TextListArgs(MentionChars, N, MaxRecords) :
        Call("extract_mentions", [text_list |-> text_list])

MaxWindow == 1

CallCurrency(N) ==
    /\ Idle
    /\ \E text_list \in TextListArgs(CurrencyTextChars, N, MaxRecords),
         left_chars \in 0..MaxWindow, right_chars \in 0..MaxWindow :
        Call("extract_currency", [text_list |-> text_list,
                                  left_chars |-> left_chars,
                                  right_chars |-> right_chars])

CallEmoji(N) ==
    /\ Idle
    /\ \E text_list \in TextListArgs(EmojiTextChars, N, MaxRecords) :
        Call("extract_emoji", [text_list |-> text_list])

CallExclamations(N) ==
    /\ Idle
    /\ \E text_list \in TextListArgs(ExclamationChars, N, MaxRecords) :
        Call("extract_exclamations", [text_list |-> text_list])

CallQuestions(N) ==
    /\ Idle
    /\ \E text_list \in TextListArgs(QuestionChars, N, MaxRecords) :
        Call("extract_questions", [text_list |-> text_list])

MaxReps == 3

CallIntenseWords(N) ==
    /\ Idle
    /\ \E text_list \in TextListArgs(IntenseChars, N, MaxRecords),
         min_reps \in 1..MaxReps :
        Call("extract_intense_words", [text_list |-> text_list,
                                       min_reps |-> min_reps])

\* the tokens the texts of extract_urls are made of: with and without a
\* scheme, beginning with www or ftp in either case, with a path, and a
\* word that is no URL
UrlTokens ==
    { <<"a", ".", "c", "o", "m">>,
      <<"h", "t", "t", "p", ":", "/", "/", "a", ".", "c", "o", "m">>,
      <<"F", "T", "P", ".", "a", ".", "c", "o", "m">>,
      <<"h", "t", "t", "p", ":", "/", "/", "b", ".", "o", "r", "g", "/", "p">>,
      <<"W", "w", "w", ".", "b", ".", "o", "r", "g">>,
      <<"n", "o">> }

RECURSIVE JoinSpace(_)
\* ' '.join(tokens)
JoinSpace(tokens) ==
    IF Len(tokens) = 0 THEN <<>>
    ELSE IF Len(tokens) = 1 THEN Head(tokens)
    ELSE Head(tokens) \o <<" ">> \o JoinSpace(Tail(tokens))

\* corpora of at most N tokens in all, the tokens of a record separated by
\* one space
TokenTextListArgs(T, N, R) ==
    {List([i \in 1..Len(l) |-> JoinSpace(l[i])]) : l \in Corpora(T, N, R)}
      \cup {Str(JoinSpace(t)) : t \in SeqsUpTo(T, N)}

CallUrls(N) ==
    /\ Idle
    /\ \E text_list \in TokenTextListArgs(UrlTokens, N, MaxRecords) :
        Call("extract_urls", [text_list |-> text_list])

\* the words to extract: one word as a str, or a list of words
TargetArgs ==
    { Str(<<"a">>),
      List(<<<<"a", "b">>>>),
      List(<<<<"A">>, <<"a", "b">>>>),
      List(<<<<"A", "b">>, <<"b">>>>) }

CallWords(N) ==
    /\ Idle
    /\ \E text_list \in TextListArgs(WordTextChars, N, MaxRecords),
         words_to_extract \in TargetArgs, entire_words_only \in BOOLEAN :
        Call("extract_words", [text_list |-> text_list,
                               words_to_extract |-> words_to_extract,
                               entire_words_only |-> entire_words_only])

\* the caller drops the summary: nothing is kept between calls
Return ==
    /\ ~Idle
    /\ fn' = "none" /\ args' = <<>> /\ out' = <<>>

-----------------------------------------------------------------------------
Init == fn = "none" /\ args = <<>> /\ out = <<>>

\* extract alone, on its larger corpora
NextEngine == CallExtract(MaxChars) \/ CallExtractPrecomputed \/ Return

SpecEngine == Init /\ [][NextEngine]_vars

MaxSmall == 2
MaxTokens == 3
MaxWordChars == 3

\* extract_urls alone, on its larger corpora
NextUrls == CallUrls(MaxTokens) \/ Return

SpecUrls == Init /\ [][NextUrls]_vars

\* extract_words alone, on its larger corpora
NextWords == CallWords(MaxWordChars) \/ Return

SpecWords == Init /\ [][NextWords]_vars

MaxCurrencyChars == 3

\* extract_currency alone, on its larger corpora
NextCurrency == CallCurrency(MaxCurrencyChars) \/ Return

SpecCurrency == Init /\ [][NextCurrency]_vars

MaxIntenseChars == 4

\* extract_intense_words alone, on its larger corpora
NextIntense == CallIntenseWords(MaxIntenseChars) \/ Return

SpecIntense == Init /\ [][NextIntense]_vars

\* every function of __all__, on small corpora
Next ==
    \/ CallExtract(MaxSmall)
    \/ CallExtractPrecomputed
    \/ CallCurrency(MaxSmall)
    \/ CallEmoji(MaxSmall)
    \/ CallExclamations(MaxSmall)
    \/ CallHashtags(MaxSmall)
    \/ CallIntenseWords(MaxSmall)
    \/ CallMentions(MaxSmall)
    \/ CallQuestions(MaxSmall)
    \/ CallWords(MaxSmall)
    \/ CallUrls(MaxSmall)
    \/ Return

Spec == Init /\ [][Next]_vars

-----------------------------------------------------------------------------
(* What the claims read off a call and its summary.                        *)

RECURSIVE SumSeq(_)
SumSeq(xs) == IF Len(xs) = 0 THEN 0 ELSE Head(xs) + SumSeq(Tail(xs))

Range(xs) == {xs[i] : i \in 1..Len(xs)}

\* how often x occurs in xs, and where it occurs first
Occurrences(xs, x) == Cardinality({i \in 1..Len(xs) : xs[i] = x})
FirstIndex(xs, x) == CHOOSE i \in 1..Len(xs) :
                        xs[i] = x /\ \A j \in 1..(i - 1) : xs[j] # x

\* the number of matches in the records before record i
Offset(lists, i) == SumSeq([j \in 1..(i - 1) |-> Len(lists[j])])

Returned == fn # "none" /\ ~IsRaised(out)
EngineReturned == fn = "extract" /\ Returned
NoPrecomputed == args.extracted.type = "None"

F_s == out[args.key_name \o "s"]
F_s_flat == out[args.key_name \o "s_flat"]
F_counts == out[args.key_name \o "_counts"]
F_freq == out[args.key_name \o "_freq"]
top_F_s == out["top_" \o args.key_name \o "s"]
overview == out["overview"]

\* C1: for a non-empty record collection R and any pattern, the summary of
\* extract(R, pattern, F) has one match list and one count for each record,
\* each count is the length of its match list, the counts sum to the length
\* of the flat list, and the flat list is the match lists one after the
\* other in record order.
C1_PerRecordShape ==
    (fn = "extract" /\ NoPrecomputed /\ NumRecords(args.text_list) > 0) =>
        /\ ~IsRaised(out)
        /\ Len(F_s) = NumRecords(args.text_list)
        /\ Len(F_counts) = NumRecords(args.text_list)
        /\ \A i \in 1..Len(F_s) : F_counts[i] = Len(F_s[i])
        /\ SumSeq(F_counts) = Len(F_s_flat)
        /\ \A i \in 1..Len(F_s) : \A j \in 1..Len(F_s[i]) :
              F_s_flat[Offset(F_s, i) + j] = F_s[i][j]

\* two records with different, non-zero numbers of matches
C1_Witness ==
    /\ EngineReturned /\ NoPrecomputed
    /\ Len(F_s) = 2
    /\ Len(F_s[1]) > 0 /\ Len(F_s[2]) > Len(F_s[1])

\* C2: top_F_s holds each distinct value of F_s_flat once, with the number
\* of its occurrences, in descending order of frequency, values of equal
\* frequency in the order of their first occurrence in F_s_flat; the
\* frequencies sum to len(F_s_flat).
C2_TopRanking ==
    EngineReturned =>
        /\ Range([i \in 1..Len(top_F_s) |-> top_F_s[i][1]]) = Range(F_s_flat)
        /\ Len(top_F_s) = Cardinality(Range(F_s_flat))
        /\ \A i \in 1..Len(top_F_s) :
              top_F_s[i][2] = Occurrences(F_s_flat, top_F_s[i][1])
        /\ \A i, j \in 1..Len(top_F_s) : i < j =>
              /\ top_F_s[i][2] >= top_F_s[j][2]
              /\ top_F_s[i][2] = top_F_s[j][2] =>
                    FirstIndex(F_s_flat, top_F_s[i][1])
                      < FirstIndex(F_s_flat, top_F_s[j][1])
        /\ SumSeq([i \in 1..Len(top_F_s) |-> top_F_s[i][2]]) = Len(F_s_flat)

\* a value seen later ranks first for being more frequent, and two values
\* of equal frequency follow it
C2_Witness ==
    /\ EngineReturned
    /\ Len(top_F_s) = 3
    /\ top_F_s[1][2] > top_F_s[2][2]
    /\ top_F_s[2][2] = top_F_s[3][2]
    /\ FirstIndex(F_s_flat, top_F_s[1][1]) > FirstIndex(F_s_flat, top_F_s[2][1])

\* C3: F_freq is a list of (count, number of records with that count)
\* pairs, the counts pairwise distinct and ascending, that groups exactly
\* the multiset F_counts; its second components sum to the number of input
\* records.
C3_FreqTable ==
    EngineReturned =>
        /\ \A i, j \in 1..Len(F_freq) : i < j => F_freq[i][1] < F_freq[j][1]
        /\ Range([i \in 1..Len(F_freq) |-> F_freq[i][1]]) = Range(F_counts)
        /\ \A i \in 1..Len(F_freq) :
              F_freq[i][2] = Occurrences(F_counts, F_freq[i][1])
        /\ SumSeq([i \in 1..Len(F_freq) |-> F_freq[i][2]])
              = NumRecords(args.text_list)

\* the first record has more matches than the second: the counts are met
\* in descending order and listed in ascending order
C3_Witness ==
    /\ EngineReturned
    /\ Len(F_counts) = 2 /\ F_counts[1] > F_counts[2]
    /\ Len(F_freq) = 2

FeatureName ==
    CASE fn = "extract" -> args.key_name
      [] fn = "extract_currency" -> "currency_symbol"
      [] fn = "extract_emoji" -> "emoji"
      [] fn = "extract_exclamations" -> "exclamation_mark"
      [] fn = "extract_hashtags" -> "hashtag"
      [] fn = "extract_intense_words" -> "intense_word"
      [] fn = "extract_mentions" -> "mention"
      [] fn = "extract_questions" -> "question_mark"
      [] fn = "extract_words" -> "word"
      [] fn = "extract_urls" -> "url"

Called == fn # "none"

\* C5: a call of extract or of any specialized extractor with an empty
\* record collection raises ZeroDivisionError and returns no summary, also
\* when an empty list of precomputed matches is passed.
C5_EmptyCollectionRaises ==
    (Called /\ ~IsStr(args.text_list) /\ PyLen(args.text_list) = 0) =>
        out = Raise("ZeroDivisionError")

\* extract called with no records and an empty list of precomputed matches
C5_Witness ==
    /\ fn = "extract"
    /\ args.text_list = List(<<>>)
    /\ args.extracted = List(<<>>)
    /\ out = Raise("ZeroDivisionError")

\* C6: a single text t passed as the record collection gives the summary
\* that the one-element list [t] gives, for extract and for every
\* specialized extractor.
C6_SingleTextIsOneRecord ==
    (Called /\ IsStr(args.text_list)) =>
        out = Apply(fn, [args EXCEPT !.text_list = List(<<args.text_list.v>>)])

\* the keys F+'s', F+'s_flat', F+'_counts', F+'_freq', 'top_'+F+'s' and
\* 'overview', and the keys of the overview
BaseKeys(F) ==
    {F \o "s", F \o "s_flat", F \o "_counts", F \o "_freq", "top_" \o F \o "s",
     "overview"}
OverviewKeys(F) ==
    {"num_posts", "num_" \o F \o "s", F \o "s_per_post", "unique_" \o F \o "s"}

\* C7 as claimed: every extractor, the emoji extractor too, exposes the
\* base fields under the keys formed from its feature name by appending
\* "s" for the plural.
C7_KeysAppendS ==
    Returned =>
        /\ BaseKeys(FeatureName) \subseteq DOMAIN out
        /\ OverviewKeys(FeatureName) = DOMAIN out["overview"]

\* the keys extract_emoji writes out itself: 'emoji' is its own plural
EmojiBaseKeys ==
    {"emoji", "emoji_flat", "emoji_counts", "emoji_freq", "top_emoji", "overview"}
EmojiOverviewKeys == {"num_posts", "num_emoji", "emoji_per_post", "unique_emoji"}

\* C7, amended: every extractor but the emoji extractor exposes the base
\* fields under the keys formed by appending "s"; the emoji extractor
\* builds its summary itself and exposes them under 'emoji', 'emoji_flat',
\* 'emoji_counts', 'emoji_freq', 'top_emoji' and 'overview' (num_posts,
\* num_emoji, emoji_per_post, unique_emoji), with no "s" appended.
C7_Keys ==
    Returned =>
        IF fn = "extract_emoji"
          THEN /\ EmojiBaseKeys \subseteq DOMAIN out
               /\ EmojiOverviewKeys = DOMAIN out["overview"]
               /\ {"emojis", "emojis_flat", "top_emojis"} \cap DOMAIN out = {}
          ELSE /\ BaseKeys(FeatureName) \subseteq DOMAIN out
               /\ OverviewKeys(FeatureName) = DOMAIN out["overview"]

\* a summary of extract_urls, whose keys are those of 'url' and two more
C7_Witness ==
    /\ Returned
    /\ fn = "extract_urls"
    /\ DOMAIN out = BaseKeys("url") \cup {"top_domains", "top_tlds"}
    /\ Len(out["urls_flat"]) > 0

\* a call of f that returned a summary; one made with a list of records,
\* and its records
ReturnedFrom(f) == fn = f /\ Returned
ListCall(f) == ReturnedFrom(f) /\ ~IsStr(args.text_list)
Records == args.text_list.v

\* does url begin with prefix, whatever the case of its letters
BeginsWithAnyCase(url, prefix) ==
    /\ Len(url) >= Len(prefix)
    /\ \A i \in 1..Len(prefix) : LowerChar(url[i]) = prefix[i]

\* the form in which a matched token is to appear
ExpectedUrl(token) ==
    IF BeginsWithAnyCase(token, <<"w", "w", "w">>)
         \/ BeginsWithAnyCase(token, <<"f", "t", "p">>)
      THEN <<"h", "t", "t", "p", ":", "/", "/">> \o token
      ELSE token

\* C8: in extract_urls, called with a list of records, every matched
\* token that begins, in any case, with 'www' or 'ftp' appears in urls and
\* urls_flat as 'http://' + token and every other matched token unchanged,
\* the number and the order of the URLs of a record stay as matched, and
\* top_urls and unique_urls count the normalized forms.
C8_UrlsNormalized ==
    ListCall("extract_urls") =>
        LET urls == out["urls"]
            flat == out["urls_flat"]
            top == out["top_urls"]
        IN  /\ Len(urls) = Len(Records)
            /\ \A i \in 1..Len(Records) :
                  LET tokens == FindAll(URL, Records[i])
                  IN  /\ Len(urls[i]) = Len(tokens)
                      /\ \A j \in 1..Len(tokens) :
                            /\ urls[i][j] = ExpectedUrl(tokens[j])
                            /\ flat[Offset(urls, i) + j] = ExpectedUrl(tokens[j])
            /\ Len(flat) = SumSeq(Lens(urls))
            /\ Range([i \in 1..Len(top) |-> top[i][1]]) = Range(flat)
            /\ \A i \in 1..Len(top) : top[i][2] = Occurrences(flat, top[i][1])
            /\ out["overview"]["unique_urls"] = Cardinality(Range(flat))

\* a record with a token left as it is followed by a token in upper case
\* that is rewritten
C8_Witness ==
    /\ ListCall("extract_urls")
    /\ Len(Records) = 1
    /\ FindAll(URL, Records[1])
         = << <<"h", "t", "t", "p", ":", "/", "/", "a", ".", "c", "o", "m">>,
              <<"F", "T", "P", ".", "a", ".", "c", "o", "m">> >>
    /\ out["urls"][1][1] = FindAll(URL, Records[1])[1]
    /\ out["urls"][1][2] # FindAll(URL, Records[1])[2]

\* top ranks the values of xs: each distinct value once with the number of
\* its occurrences, in descending order of frequency, equal frequencies in
\* the order of first occurrence
IsRanking(top, xs) ==
    /\ Range([i \in 1..Len(top) |-> top[i][1]]) = Range(xs)
    /\ Len(top) = Cardinality(Range(xs))
    /\ \A i \in 1..Len(top) : top[i][2] = Occurrences(xs, top[i][1])
    /\ \A i, j \in 1..Len(top) : i < j =>
          /\ top[i][2] >= top[j][2]
          /\ top[i][2] = top[j][2] =>
                FirstIndex(xs, top[i][1]) < FirstIndex(xs, top[j][1])

\* the longest end of host that holds no '.'
AfterLastDot(host) ==
    LET k == CHOOSE n \in 0..Len(host) :
                /\ \A i \in (Len(host) - n + 1)..Len(host) : host[i] # "."
                /\ n = Len(host) \/ host[Len(host) - n] = "."
    IN  SubSeq(host, Len(host) - k + 1, Len(host))

UrlHosts == [i \in 1..Len(out["urls_flat"]) |-> Netloc(out["urls_flat"][i])]
UrlTlds == [i \in 1..Len(UrlHosts) |-> AfterLastDot(UrlHosts[i])]

\* C9: in every summary of extract_urls top_domains ranks the host of each
\* normalized URL of urls_flat and top_tlds what follows the last '.' of
\* each host: one host and one TLD for each URL, so that the frequencies of
\* each list sum to len(urls_flat), in descending order of frequency, ties
\* in the order of first occurrence.
C9_DomainsAndTlds ==
    ReturnedFrom("extract_urls") =>
        /\ IsRanking(out["top_domains"], UrlHosts)
        /\ IsRanking(out["top_tlds"], UrlTlds)
        /\ SumSeq([i \in 1..Len(out["top_domains"]) |-> out["top_domains"][i][2]])
              = Len(out["urls_flat"])
        /\ SumSeq([i \in 1..Len(out["top_tlds"]) |-> out["top_tlds"][i][2]])
              = Len(out["urls_flat"])

\* three URLs on two hosts, the host seen second being the more frequent,
\* and one TLD for two different hosts
C9_Witness ==
    /\ ListCall("extract_urls")
    /\ Len(out["urls_flat"]) = 3
    /\ Len(out["top_domains"]) = 2
    /\ out["top_domains"][1] = <<<<"a", ".", "c", "o", "m">>, 2>>
    /\ UrlHosts[1] = <<"F", "T", "P", ".", "a", ".", "c", "o", "m">>
    /\ out["top_tlds"] = << <<<<"c", "o", "m">>, 3>> >>

\* the words to extract, as a set of lower-case words
LowerTargets ==
    LET w == args.words_to_extract
    IN  IF IsStr(w) THEN {Lower(w.v)} ELSE {Lower(w.v[i]) : i \in 1..Len(w.v)}

\* the end of the run of word characters that begins at i
RunEnd(text, i) ==
    CHOOSE j \in i..Len(text) :
        /\ \A h \in i..j : text[h] \in WordChars
        /\ j = Len(text) \/ text[j + 1] \notin WordChars

RECURSIVE WholeWords(_, _, _)
\* the complete tokens of text, from position i on, that are one of W
WholeWords(text, i, W) ==
    IF i > Len(text) THEN <<>>
    ELSE IF text[i] \notin WordChars THEN WholeWords(text, i + 1, W)
    ELSE LET j == RunEnd(text, i)
             token == SubSeq(text, i, j)
         IN  (IF token \in W THEN <<token>> ELSE <<>>)
               \o WholeWords(text, j + 1, W)

\* C10: with entire_words_only and a list of records, the matches of a
\* record are exactly the occurrences, left to right, of a target as a
\* complete token between word boundaries: each is one of the lower-cased
\* targets, and a longer word that contains a target is not reported,
\* whatever the case of the records and of the targets.
C10_WholeWordsOnly ==
    (ListCall("extract_words") /\ args.entire_words_only) =>
        /\ Len(out["words"]) = Len(Records)
        /\ \A i \in 1..Len(Records) :
              /\ out["words"][i] = WholeWords(Lower(Records[i]), 1, LowerTargets)
              /\ \A j \in 1..Len(out["words"][i]) :
                    out["words"][i][j] \in LowerTargets

\* the first record is a longer word that contains a target and has no
\* match, the second is the target in upper case and has one
C10_Witness ==
    /\ ListCall("extract_words") /\ args.entire_words_only
    /\ Records = << <<"a", "b">>, <<"A">> >>
    /\ args.words_to_extract = Str(<<"a">>)
    /\ out["words"] = << <<>>, << <<"a">> >> >>

\* w is a word: word characters and nothing else
IsWord(w) == Len(w) > 0 /\ \A i \in 1..Len(w) : w[i] \in WordChars

\* t stands somewhere inside w
Contains(w, t) ==
    \E i \in 1..(Len(w) - Len(t) + 1) : SubSeq(w, i, i + Len(t) - 1) = t

\* C11: without entire_words_only, extract_words reports for each
\* occurrence of a target the complete lower-case word that contains it:
\* every reported value is a word that contains one of the lower-cased
\* targets, as in words == [['rain', 'raining']] for the record
\* 'there is rain, it is raining' and the target 'rain'.
C11_SubstringReportsWords ==
    (ListCall("extract_words") /\ ~args.entire_words_only) =>
        \A i \in 1..Len(out["words"]) : \A j \in 1..Len(out["words"][i]) :
            /\ IsWord(out["words"][i][j])
            /\ \E t \in LowerTargets : Contains(out["words"][i][j], t)

\* the positions of text where a token of non-space characters begins
TokenStarts(text) ==
    SelectSeq([i \in 1..Len(text) |-> i],
              LAMBDA i : /\ text[i] \notin SpaceChars
                         /\ i = 1 \/ text[i - 1] \in SpaceChars)

\* the last position of the token that begins at i
TokenEnd(text, i) ==
    CHOOSE j \in i..Len(text) :
        /\ \A h \in i..j : text[h] \notin SpaceChars
        /\ j = Len(text) \/ text[j + 1] \in SpaceChars

\* the whitespace-delimited tokens of text, left to right
SpaceTokens(text) ==
    [k \in 1..Len(TokenStarts(text)) |->
        SubSeq(text, TokenStarts(text)[k], TokenEnd(text, TokenStarts(text)[k]))]

\* w holds some character n times in a row
HasRun(w, n) ==
    \E i \in 1..(Len(w) - n + 1) : \A k \in 0..(n - 1) : w[i + k] = w[i]

IntenseTokens(text, n) == SelectSeq(SpaceTokens(text), LAMBDA w : HasRun(w, n))

\* C12: for a list of records and min_reps >= 1, extract_intense_words
\* reports for each record, left to right, exactly the whitespace-delimited
\* tokens that hold some character at least min_reps times in a row, each
\* as the whole token; a token whose longest run is shorter is not reported.
C12_IntenseTokens ==
    ListCall("extract_intense_words") =>
        out["intense_words"] =
            [i \in 1..Len(Records) |-> IntenseTokens(Records[i], args.min_reps)]

\* one record of two tokens, of which only the second has a run of two
C12_Witness ==
    /\ ListCall("extract_intense_words")
    /\ args.min_reps = 2
    /\ Records = << <<"s", " ", "o", "o">> >>
    /\ out["intense_words"] = << << <<"o", "o">> >> >>

\* w is at most l characters, a currency symbol, and at most r characters
IsCurrencyWindow(w, l, r) ==
    \E p \in 1..Len(w) :
        w[p] \in CurrencyChars /\ p - 1 <= l /\ Len(w) - p <= r

\* ws are substrings of text that begin at the positions starts, one after
\* the other without overlap; each is a window around a currency symbol and
\* every currency symbol of text is inside one of them
WindowsAt(text, ws, starts, l, r) ==
    /\ \A k \in 1..Len(ws) :
          /\ starts[k] + Len(ws[k]) - 1 <= Len(text)
          /\ SubSeq(text, starts[k], starts[k] + Len(ws[k]) - 1) = ws[k]
          /\ IsCurrencyWindow(ws[k], l, r)
    /\ \A k \in 1..(Len(ws) - 1) : starts[k] + Len(ws[k]) <= starts[k + 1]
    /\ \A p \in 1..Len(text) :
          text[p] \in CurrencyChars =>
              \E k \in 1..Len(ws) :
                  starts[k] <= p /\ p < starts[k] + Len(ws[k])

\* C13: for a list of records, surrounding_text of extract_currency has one
\* list per record that holds, left to right, non-overlapping substrings of
\* the record in its original case, each at most left_chars characters, a
\* currency symbol and at most right_chars characters (never padded), and
\* every currency symbol of the record is inside one of them.
C13_SurroundingText ==
    ListCall("extract_currency") =>
        /\ Len(out["surrounding_text"]) = Len(Records)
        /\ \A i \in 1..Len(Records) :
              \E starts \in [1..Len(out["surrounding_text"][i])
                               -> 1..Len(Records[i])] :
                  WindowsAt(Records[i], out["surrounding_text"][i], starts,
                            args.left_chars, args.right_chars)

\* two windows in one record: the first keeps its upper-case letter, the
\* second ends with the text and is shorter than right_chars allows
C13_Witness ==
    /\ ListCall("extract_currency")
    /\ args.left_chars = 0 /\ args.right_chars = 1
    /\ Records = << <<"$", "A", "$">> >>
    /\ out["surrounding_text"] = << << <<"$", "A">>, <<"$">> >> >>

\* the records of the call: a single text is one record
CallRecords ==
    IF IsStr(args.text_list) THEN <<args.text_list.v>> ELSE args.text_list.v

\* the matches the call was given
Supplied == args.extracted.v

\* C14: when extract is given precomputed matches, one match list per
\* record, the pattern is not applied: F_s is the supplied lists, unchanged
\* and in their order, and the flat list, the counts, the frequency table,
\* the ranking and the overview are derived from the supplied lists; the
\* pattern is applied, to the lower-cased text of each record, only when no
\* matches are supplied.
C14_PrecomputedBypass ==
    /\ (EngineReturned /\ ~NoPrecomputed) =>
          /\ F_s = Supplied
          /\ Len(F_s_flat) = SumSeq([i \in 1..Len(Supplied) |-> Len(Supplied[i])])
          /\ \A i \in 1..Len(Supplied) : \A j \in 1..Len(Supplied[i]) :
                F_s_flat[Offset(Supplied, i) + j] = Supplied[i][j]
          /\ F_counts = [i \in 1..Len(Supplied) |-> Len(Supplied[i])]
          /\ \A i \in 1..Len(F_freq) :
                F_freq[i][2] = Cardinality({r \in 1..Len(Supplied) :
                                              Len(Supplied[r]) = F_freq[i][1]})
          /\ \A i \in 1..Len(top_F_s) :
                top_F_s[i][2] =
                    SumSeq([r \in 1..Len(Supplied) |->
                               Occurrences(Supplied[r], top_F_s[i][1])])
          /\ overview["num_" \o args.key_name \o "s"]
                = SumSeq([i \in 1..Len(Supplied) |-> Len(Supplied[i])])
          /\ overview["unique_" \o args.key_name \o "s"]
                = Cardinality(UNION {Range(Supplied[i]) : i \in 1..Len(Supplied)})
    /\ (EngineReturned /\ NoPrecomputed) =>
          F_s = [i \in 1..Len(CallRecords) |->
                    FindAll(args.regex, Lower(CallRecords[i]))]

\* two records given matches that the pattern does not find in them: the
\* first is given two, of which the pattern finds one, the second is given
\* none although the pattern matches in it
C14_Witness ==
    /\ EngineReturned /\ ~NoPrecomputed
    /\ Len(CallRecords) = 2
    /\ F_s[1] = << <<"b">>, <<"a">> >> /\ F_s[2] = <<>>
    /\ FindAll(args.regex, Lower(CallRecords[1])) = << <<"a">> >>
    /\ FindAll(args.regex, Lower(CallRecords[2])) # <<>>
    /\ Len(F_s_flat) = 2
====
